---- MODULE Spec2Model ----
(***************************************************************************)
(* A model of the pull-request review bot.                                 *)
(*                                                                         *)
(*   Spec        src/main.py        main(): event -> diff -> PatchSet ->   *)
(*                                  analyze_code -> create_review_comment  *)
(*   SpecReview  src/main.py        get_ai_response followed by            *)
(*                                  combine_reviews_into_single_comment,   *)
(*                                  on one model output                    *)
(*   SpecParse   src/diff_parser.py parse_diff on one diff text            *)
(***************************************************************************)
EXTENDS Integers, Sequences, FiniteSets, TLC

\* Bounds of the model.
MaxFiles == 2      \* files (file sections) of a diff
MaxLines == 2      \* hunk lines of a diff, all files together
MaxItems == 2      \* elements of a "reviews" list
HunkStart == 3     \* the target line a file's hunk starts at

SeqsUpTo(S, n) == UNION {[1..k -> S] : k \in 0..n}

Max(S) == IF S = {} THEN 0 ELSE CHOOSE x \in S : \A y \in S : y <= x

(***************************************************************************)
(* The diff, as unidiff's PatchSet presents it.  A file is its path and    *)
(* the lines of its hunks: "+" added, "-" removed, " " context.            *)
(***************************************************************************)
DEV_NULL == "/dev/null"

LineTypes == {"+", "-", " "}


FileNames == <<"a.py", "b.py", "c.py", "d.py">>

\* The files a diff may hold at position i, with at most n hunk lines.
PatchedFiles(i, n) ==
    [path : {FileNames[i], DEV_NULL}, start : {HunkStart},
     lines : SeqsUpTo(LineTypes, n)]

\* The diffs of at most MaxFiles files and MaxLines hunk lines in all.
RECURSIVE PatchSetsFrom(_, _)
PatchSetsFrom(i, n) ==
    {<<>>} \cup
    (IF i > MaxFiles THEN {}
     ELSE UNION {{<<f>> \o rest : rest \in PatchSetsFrom(i + 1, n - Len(f.lines))} :
                    f \in PatchedFiles(i, n)})

PatchSets == PatchSetsFrom(1, MaxLines)

\* line.target_line_no: the line's number in the new file; None (0 here,
\* both are falsy) for a removed line.
target_line_no(file, i) ==
    IF file.lines[i] = "-" THEN 0
    ELSE file.start + Cardinality({j \in 1..(i - 1) : file.lines[j] # "-"})

is_added(file, i) == file.lines[i] = "+"

AddedLineNumbers(file) ==
    {target_line_no(file, i) : i \in {j \in 1..Len(file.lines) : is_added(file, j)}}

(***************************************************************************)
(* What the completion provider gives back for one prompt: an exception,   *)
(* or a text.  A text is a payload, possibly inside a code fence.  The     *)
(* payload is not JSON ("invalid"), JSON that is no object ("scalar"), or  *)
(* an object whose "reviews" key is absent or holds null (or another       *)
(* falsy value), a non-empty string, a non-zero number, or a list.         *)
(***************************************************************************)
\* "bare": three backquotes; "tagged": three backquotes and the word json.
Fences == {"none", "bare", "tagged"}

NonObject == [obj |-> FALSE, hasLine |-> FALSE, line |-> 0,
              hasComment |-> FALSE, comment |-> ""]

ObjectItems ==
    {it \in [obj : {TRUE}, hasLine : BOOLEAN, line : {0, 1},
             hasComment : BOOLEAN, comment : {"", "fix"}] :
        /\ ~it.hasLine => it.line = 0
        /\ ~it.hasComment => it.comment = ""}

ItemSet == ObjectItems \cup {NonObject}

RawText(fence, json, reviews, items) ==
    [kind |-> "text", fence |-> fence, json |-> json, reviews |-> reviews,
     items |-> items]

ProviderError == [kind |-> "exception", fence |-> "none", json |-> "invalid",
                  reviews |-> "absent", items |-> <<>>]

Payloads(n) ==
    {RawText("none", "invalid", "absent", <<>>),
     RawText("none", "scalar", "absent", <<>>)}
    \cup {RawText("none", "object", r, <<>>) :
            r \in {"absent", "null", "string", "number"}}
    \cup {RawText("none", "object", "list", its) : its \in SeqsUpTo(ItemSet, n)}

RawTexts(n) == {[p EXCEPT !.fence = f] : p \in Payloads(n), f \in Fences}

Responses(n) == RawTexts(n) \cup {ProviderError}

\* The value get_ai_response hands back: what "reviews" held.
Reviews(kind, items) == [kind |-> kind, items |-> items]

EmptyList == Reviews("list", <<>>)

(***************************************************************************)
(* get_ai_response and combine_reviews_into_single_comment (src/main.py).  *)
(***************************************************************************)
\* json.loads(content): a text decodes only when all of it is one JSON
\* document; fence markers around the payload make it raise.
json_loads_raises(resp) == resp.fence # "none" \/ resp.json = "invalid"

\* json.loads(...).get("reviews", []): only a dict has .get.
get_raises(resp) == resp.json # "object"

get_ai_response(resp) ==
    IF resp.kind = "exception" \/ json_loads_raises(resp) \/ get_raises(resp)
    THEN EmptyList                                  \* except Exception: return []
    ELSE IF resp.reviews = "absent" THEN EmptyList  \* the default of .get
    ELSE Reviews(resp.reviews, resp.items)

\* "if not reviews": None, [], "" and 0 are falsy.
Falsy(reviews) ==
    reviews.kind = "null" \/ (reviews.kind = "list" /\ reviews.items = <<>>)

\* review.get("lineNumber", "N/A"), review.get("reviewComment", "")
RenderReview(review) ==
    [label |-> IF review.hasLine THEN ToString(review.line) ELSE "N/A",
     text |-> IF review.hasComment THEN review.comment ELSE ""]

\* Iterating a number raises TypeError; the characters of a string and the
\* elements that are no dict have no .get (AttributeError).
combine_raises(reviews) ==
    /\ ~Falsy(reviews)
    /\ \/ reviews.kind \in {"string", "number"}
       \/ \E i \in 1..Len(reviews.items) : ~reviews.items[i].obj

\* A faulty variant: a placeholder paragraph where there is nothing to say.
combine_with_placeholder(reviews) ==
    IF Falsy(reviews) THEN <<[label |-> "N/A", text |-> ""]>>
    ELSE [i \in 1..Len(reviews.items) |-> RenderReview(reviews.items[i])]

\* The comment body, as the sequence of its "**Line <label>**:" paragraphs;
\* the empty sequence is the empty string.
combine_reviews_into_single_comment(reviews) ==
    IF Falsy(reviews) THEN <<>>
    ELSE [i \in 1..Len(reviews.items) |-> RenderReview(reviews.items[i])]

(***************************************************************************)
(* State.                                                                  *)
(***************************************************************************)
VARIABLES
    pc,            \* where the run is
    action,        \* main: event_data["action"], once the event is loaded
    diff,          \* main: what get_diff returned
    parsed_diff,   \* main: PatchSet(io.StringIO(diff))
    idx,           \* analyze_code: the file the loop is at
    comments,      \* analyze_code: the payloads so far
    response,      \* the completion provider's answer to the latest call
    ai_reviews,    \* what get_ai_response returned (SpecReview)
    comment_body,  \* what combine_reviews_into_single_comment returned (SpecReview)
    calls,         \* history: the completion calls made, in order
    fetches,       \* history: the calls of get_diff
    posts,         \* history: the bodies POSTed to .../pulls/<n>/reviews
    error,         \* the function whose exception reached the top level
    diff_text,     \* parse_diff: its argument
    parsed_files   \* parse_diff: its result

vars == <<pc, action, diff, parsed_diff, idx, comments, response, ai_reviews,
          comment_body, calls, fetches, posts, error, diff_text, parsed_files>>

mainVars == <<action, diff, parsed_diff, idx, comments, calls, fetches, posts>>
reviewVars == <<ai_reviews, comment_body>>
parseVars == <<diff_text, parsed_files>>

(***************************************************************************)
(* analyze_code (src/main.py).                                             *)
(***************************************************************************)
\* A faulty variant: only the added lines are looked at.
last_added_line(file) == Max(AddedLineNumbers(file))

file_last_line(file) ==
    Max({target_line_no(file, i) : i \in 1..Len(file.lines)})

all_added_lines(file) ==
    SelectSeq([i \in 1..Len(file.lines) |-> i], LAMBDA i : is_added(file, i))

\* The three "continue"s before the completion call.
Skipped(file) ==
    \/ file.path = DEV_NULL
    \/ file_last_line(file) <= 0
    \/ all_added_lines(file) = <<>>

Reviewable(files) == {i \in 1..Len(files) : ~Skipped(files[i])}

Comment(body, file) ==
    [body |-> body, path |-> file.path, line |-> file_last_line(file)]

\* What a response turned out to be (history of a completion call): the
\* provider raised; the text did not decode to an object; "reviews" was
\* absent, empty or falsy; it was a non-empty value that is no list; a list
\* with an element that is no object; a non-empty list of objects.
Outcome(resp) ==
    IF resp.kind = "exception" THEN "exception"
    ELSE IF json_loads_raises(resp) \/ get_raises(resp) THEN "undecodable"
    ELSE IF Falsy(get_ai_response(resp)) THEN "empty"
    ELSE IF resp.reviews # "list" THEN "not_list"
    ELSE IF \E i \in 1..Len(resp.items) : ~resp.items[i].obj THEN "bad_list"
    ELSE "list"

\* The items a whole run draws its "reviews" lists from.
ValidItem == [obj |-> TRUE, hasLine |-> TRUE, line |-> 1,
              hasComment |-> TRUE, comment |-> "fix"]

MainResponses ==
    {r \in Responses(MaxItems) :
        \A i \in 1..Len(r.items) : r.items[i] \in {ValidItem, NonObject}}

\* An exception nothing catches before "except Exception as error" at the
\* bottom of main.py: it is logged and the process ends.
Raise(where) == pc' = "error" /\ error' = where

AnalyzeSkip ==
    /\ pc = "analyze"
    /\ idx <= Len(parsed_diff)
    /\ Skipped(parsed_diff[idx])
    /\ idx' = idx + 1
    /\ UNCHANGED <<pc, action, diff, parsed_diff, comments, response, calls,
                   fetches, posts, error, reviewVars, parseVars>>

AnalyzeFile ==
    /\ pc = "analyze"
    /\ idx <= Len(parsed_diff)
    /\ ~Skipped(parsed_diff[idx])
    /\ \E r \in MainResponses :
         LET reviews == get_ai_response(r)
             body == combine_reviews_into_single_comment(reviews)
         IN  /\ response' = r
             /\ calls' = Append(calls, [file |-> idx, outcome |-> Outcome(r)])
             /\ IF combine_raises(reviews)
                THEN /\ Raise("combine_reviews_into_single_comment")
                     /\ UNCHANGED <<idx, comments>>
                ELSE /\ comments' = IF body = <<>> THEN comments
                                    ELSE Append(comments, Comment(body, parsed_diff[idx]))
                     /\ idx' = idx + 1
                     /\ UNCHANGED <<pc, error>>
    /\ UNCHANGED <<action, diff, parsed_diff, fetches, posts, reviewVars, parseVars>>

(***************************************************************************)
(* create_review_comment and main (src/main.py).                           *)
(***************************************************************************)
\* A faulty variant: the loop over the comments is left after the first one.
first_comment_only(cs) ==
    IF cs = <<>> THEN <<>>
    ELSE <<[body |-> cs[1].body, path |-> cs[1].path,
            line |-> cs[1].line, side |-> "RIGHT"]>>

\* The comments kept for the request: those with line > 0, side added.
valid_comments(cs) ==
    LET kept == SelectSeq(cs, LAMBDA c : c.line > 0)
    IN  [i \in 1..Len(kept) |->
            [body |-> kept[i].body, path |-> kept[i].path,
             line |-> kept[i].line, side |-> "RIGHT"]]

EventActions == {"opened", "synchronize", "closed", "edited"}

\* A faulty variant: one more action is let through.
SupportedActionsAndClosed == {"opened", "synchronize", "closed"}

SupportedActions == {"opened", "synchronize"}

\* What get_diff returns: None (the PR data has no diff_url), or the text
\* of the diff: empty, one unidiff cannot parse, or a patch set.
NoDiff == [kind |-> "none", files |-> <<>>]
EmptyDiff == [kind |-> "empty", files |-> <<>>]
MalformedDiff == [kind |-> "malformed", files |-> <<>>]
Diffs == {NoDiff, EmptyDiff, MalformedDiff}
         \cup {[kind |-> "patch", files |-> ps] : ps \in PatchSets}

\* main, line 235: it reads the event file and asks the host for the PR.
GetPullRequestDetails ==
    /\ pc = "details"
    /\ \/ pc' = "event" /\ UNCHANGED error
       \/ Raise("get_pull_request_details")
    /\ UNCHANGED <<mainVars, response, reviewVars, parseVars>>

\* main, lines 237-238; a missing "action" key raises at line 242.
LoadEvent ==
    /\ pc = "event"
    /\ \/ \E a \in EventActions :
            action' = a /\ pc' = "dispatch" /\ UNCHANGED error
       \/ Raise("json.load") /\ UNCHANGED action
    /\ UNCHANGED <<diff, parsed_diff, idx, comments, calls, fetches, posts,
                   response, reviewVars, parseVars>>

\* main, lines 244-246.
MainUnsupported ==
    /\ pc = "dispatch"
    /\ action \notin SupportedActions
    /\ pc' = "done"
    /\ UNCHANGED <<mainVars, response, error, reviewVars, parseVars>>

\* main, lines 242-243, and get_diff.
GetDiff ==
    /\ pc = "dispatch"
    /\ action \in SupportedActions
    /\ fetches' = fetches + 1
    /\ \/ \E d \in Diffs : diff' = d /\ pc' = "diff" /\ UNCHANGED error
       \/ Raise("get_diff") /\ UNCHANGED diff
    /\ UNCHANGED <<action, parsed_diff, idx, comments, calls, posts,
                   response, reviewVars, parseVars>>

\* main, lines 248-250: "if not diff".
MainNoDiff ==
    /\ pc = "diff"
    /\ diff.kind \in {"none", "empty"}
    /\ pc' = "done"
    /\ UNCHANGED <<mainVars, response, error, reviewVars, parseVars>>

\* main, line 252, and the start of analyze_code.
MainPatchSet ==
    /\ pc = "diff"
    /\ diff.kind \notin {"none", "empty"}
    /\ IF diff.kind = "malformed"
       THEN Raise("PatchSet") /\ UNCHANGED <<parsed_diff, idx>>
       ELSE /\ parsed_diff' = diff.files
            /\ idx' = 1
            /\ pc' = "analyze"
            /\ UNCHANGED error
    /\ UNCHANGED <<action, diff, comments, calls, fetches, posts, response,
                   reviewVars, parseVars>>

\* main, lines 260-261: analyze_code returned no comment.
MainNoComments ==
    /\ pc = "analyze"
    /\ idx > Len(parsed_diff)
    /\ comments = <<>>
    /\ pc' = "done"
    /\ UNCHANGED <<mainVars, response, error, reviewVars, parseVars>>

\* main, lines 258-259, and create_review_comment: one POST of all the
\* valid comments; a status other than 200 is logged, an exception of the
\* transport reaches the top level.
CreateReviewComment ==
    /\ pc = "analyze"
    /\ idx > Len(parsed_diff)
    /\ comments # <<>>
    /\ IF valid_comments(comments) = <<>>
       THEN pc' = "done" /\ UNCHANGED <<posts, error>>
       ELSE /\ posts' = Append(posts, valid_comments(comments))
            /\ \/ pc' = "done" /\ UNCHANGED error
               \/ Raise("create_review_comment")
    /\ UNCHANGED <<action, diff, parsed_diff, idx, comments, calls, fetches,
                   response, reviewVars, parseVars>>

Init ==
    /\ pc = "details"
    /\ action = "unset"
    /\ diff = [kind |-> "unset", files |-> <<>>]
    /\ parsed_diff = <<>>
    /\ idx = 0
    /\ comments = <<>>
    /\ response = ProviderError
    /\ ai_reviews = EmptyList
    /\ comment_body = <<>>
    /\ calls = <<>>
    /\ fetches = 0
    /\ posts = <<>>
    /\ error = "none"
    /\ diff_text = <<>>
    /\ parsed_files = <<>>

Next ==
    \/ GetPullRequestDetails
    \/ LoadEvent
    \/ MainUnsupported
    \/ GetDiff
    \/ MainNoDiff
    \/ MainPatchSet
    \/ AnalyzeSkip
    \/ AnalyzeFile
    \/ MainNoComments
    \/ CreateReviewComment

Spec == Init /\ [][Next]_vars

(***************************************************************************)
(* One model output through get_ai_response and then                       *)
(* combine_reviews_into_single_comment, as analyze_code calls them         *)
(* (src/main.py, lines 214-220).                                           *)
(***************************************************************************)
GetAiResponse ==
    /\ pc = "get_ai_response"
    /\ ai_reviews' = get_ai_response(response)
    /\ pc' = "combine"
    /\ UNCHANGED <<mainVars, response, comment_body, error, parseVars>>

CombineReviews ==
    /\ pc = "combine"
    /\ IF combine_raises(ai_reviews)
       THEN Raise("combine_reviews_into_single_comment") /\ UNCHANGED comment_body
       ELSE /\ comment_body' = combine_reviews_into_single_comment(ai_reviews)
            /\ pc' = "combined"
            /\ UNCHANGED error
    /\ UNCHANGED <<mainVars, response, ai_reviews, parseVars>>

InitReview ==
    /\ pc = "get_ai_response"
    /\ response \in Responses(MaxItems)
    /\ action = "unset"
    /\ diff = [kind |-> "unset", files |-> <<>>]
    /\ parsed_diff = <<>>
    /\ idx = 0
    /\ comments = <<>>
    /\ ai_reviews = EmptyList
    /\ comment_body = <<>>
    /\ calls = <<>>
    /\ fetches = 0
    /\ posts = <<>>
    /\ error = "none"
    /\ diff_text = <<>>
    /\ parsed_files = <<>>

NextReview == GetAiResponse \/ CombineReviews

SpecReview == InitReview /\ [][NextReview]_vars

(***************************************************************************)
(* parse_diff (src/diff_parser.py).  Its argument is the text get_diff of  *)
(* github_utils.py builds: one "Filename: <path>" section per file, each   *)
(* holding that file's patch.  A section is malformed when unidiff cannot  *)
(* parse it.                                                               *)
(***************************************************************************)
Sections(i) ==
    {sec \in [path : {FileNames[i]}, malformed : BOOLEAN, removed : BOOLEAN,
              start : {HunkStart}, lines : SeqsUpTo(LineTypes, MaxLines)] :
        /\ sec.malformed => (~sec.removed /\ sec.lines = <<>>)
        /\ sec.removed => /\ sec.lines # <<>>
                          /\ \A j \in 1..Len(sec.lines) : sec.lines[j] = "-"}

DiffTexts ==
    UNION {{dt \in [1..n -> UNION {Sections(i) : i \in 1..n}] :
                \A i \in 1..n : dt[i] \in Sections(i)} : n \in 0..MaxFiles}

\* The changes of one file: an entry per added line, with its target line
\* (src is the hunk line the content is taken from).
Changes(file) ==
    LET added == all_added_lines(file)
    IN  [k \in 1..Len(added) |->
            [line |-> target_line_no(file, added[k]), src |-> added[k]]]

\* The loop of lines 17-36 from section i on, when no PatchSet raises.
RECURSIVE ParsedFrom(_, _)
ParsedFrom(dt, i) ==
    IF i > Len(dt) THEN <<>>
    ELSE IF dt[i].removed THEN ParsedFrom(dt, i + 1)
    ELSE <<[path |-> dt[i].path, changes |-> Changes(dt[i])]>>
         \o ParsedFrom(dt, i + 1)

\* The try block spans the whole loop: an exception of any PatchSet(file_diff)
\* ends it in "return []".
parse_diff(dt) ==
    IF dt = <<>> THEN <<>>
    ELSE IF \E i \in 1..Len(dt) : dt[i].malformed THEN <<>>
    ELSE ParsedFrom(dt, 1)

ParseDiff ==
    /\ pc = "parse_diff"
    /\ parsed_files' = parse_diff(diff_text)
    /\ pc' = "parsed"
    /\ UNCHANGED <<mainVars, response, reviewVars, error, diff_text>>

InitParse ==
    /\ pc = "parse_diff"
    /\ diff_text \in DiffTexts
    /\ parsed_files = <<>>
    /\ action = "unset"
    /\ diff = [kind |-> "unset", files |-> <<>>]
    /\ parsed_diff = <<>>
    /\ idx = 0
    /\ comments = <<>>
    /\ response = ProviderError
    /\ ai_reviews = EmptyList
    /\ comment_body = <<>>
    /\ calls = <<>>
    /\ fetches = 0
    /\ posts = <<>>
    /\ error = "none"

NextParse == ParseDiff

SpecParse == InitParse /\ [][NextParse]_vars

(***************************************************************************)
(* Properties.                                                             *)
(***************************************************************************)
CallsOf(i) == {k \in 1..Len(calls) : calls[k].file = i}

CommentsOf(i) ==
    {c \in 1..Len(comments) : comments[c].path = parsed_diff[i].path}

RunEnded == pc \in {"done", "error"}

\* C1: in a run that got into analyze_code and has ended, where the
\* completion call of at least one file raised: no file whose call raised
\* has a payload, every reviewable file got exactly one completion call,
\* every file whose output held a non-empty reviews list has its payload
\* among the comments, and no exception left analyze_code.
C1_ProviderFailureIsolated ==
    (RunEnded /\ \E k \in 1..Len(calls) : calls[k].outcome = "exception")
    => /\ error # "combine_reviews_into_single_comment"
       /\ \A i \in Reviewable(parsed_diff) : Cardinality(CallsOf(i)) = 1
       /\ \A k \in 1..Len(calls) :
            /\ calls[k].outcome = "exception" => CommentsOf(calls[k].file) = {}
            /\ calls[k].outcome \in {"list", "bad_list"}
                    => Cardinality(CommentsOf(calls[k].file)) = 1

\* C2: a file whose model output is not JSON, is JSON but no object, holds
\* a reviews value that is no list, or a reviews list with an element that
\* is no object, gets no payload, and no exception leaves analyze_code; in
\* a run that has ended every reviewable file was still called.
C2_MalformedOutputNeverRaises ==
    \A k \in 1..Len(calls) :
        calls[k].outcome \in {"undecodable", "not_list", "bad_list"}
        => /\ error # "combine_reviews_into_single_comment"
           /\ CommentsOf(calls[k].file) = {}
           /\ RunEnded => \A i \in Reviewable(parsed_diff) : CallsOf(i) # {}

\* C5: a file whose output decoded to an empty reviews list has no payload;
\* and while that is so of every completion call made, there is no comment
\* and nothing has been POSTed, also when the run is over.
C5_EmptyOutputNoPost ==
    /\ \A k \in 1..Len(calls) :
            calls[k].outcome = "empty" => CommentsOf(calls[k].file) = {}
    /\ (\A k \in 1..Len(calls) : calls[k].outcome = "empty")
            => (comments = <<>> /\ posts = <<>>)

\* C5: a finished run with two completion calls, both answered with an
\* empty reviews list, and no POST.
C5_Witness ==
    /\ pc = "done"
    /\ Len(calls) = 2
    /\ \A k \in 1..Len(calls) : calls[k].outcome = "empty"
    /\ posts = <<>>

\* The file a payload is for.
FileOf(c) == CHOOSE i \in 1..Len(parsed_diff) : parsed_diff[i].path = c.path

\* C6 (as claimed): every payload's line is the greatest target line number
\* among its file's added lines.
C6_AnchorIsLastAddedLine ==
    \A c \in 1..Len(comments) :
        comments[c].line = Max(AddedLineNumbers(parsed_diff[FileOf(comments[c])]))

\* C6 (amended): every payload's line is the greatest target line number
\* among the lines of its file's hunks that have one, added or context; it
\* is never below the last added line and is the last added line when no
\* context line follows that one.
C6_AnchorIsLastDiffLine ==
    \A c \in 1..Len(comments) :
        LET file == parsed_diff[FileOf(comments[c])]
            kept == {i \in 1..Len(file.lines) : file.lines[i] # "-"}
            last == Max(kept)
        IN  /\ \E i \in kept : comments[c].line = target_line_no(file, i)
            /\ \A i \in kept : target_line_no(file, i) <= comments[c].line
            /\ comments[c].line >= Max(AddedLineNumbers(file))
            /\ file.lines[last] = "+"
                    => comments[c].line = Max(AddedLineNumbers(file))

\* C6: a payload for a file whose hunk ends in a context line after its
\* last added line.
C6_Witness ==
    \E c \in 1..Len(comments) :
        LET file == parsed_diff[FileOf(comments[c])]
        IN  /\ file.lines[Len(file.lines)] = " "
            /\ comments[c].line > Max(AddedLineNumbers(file))

\* C9: once the event is loaded with an action that is neither "opened" nor
\* "synchronize", the run is at the check of the action or over, without
\* error, and get_diff was not called; once get_diff returned no diff or an
\* empty one, the run is at "if not diff" or over, without error; in both
\* cases no completion call and no POST was made.
C9_NoOpExit ==
    /\ action \notin {"unset", "opened", "synchronize"}
            => /\ pc \in {"dispatch", "done"}
               /\ pc = "dispatch" => (ENABLED MainUnsupported /\ ~ENABLED GetDiff)
               /\ fetches = 0
               /\ error = "none" /\ calls = <<>> /\ posts = <<>>
    /\ diff.kind \in {"none", "empty"}
            => /\ pc \in {"diff", "done"}
               /\ pc = "diff" => (ENABLED MainNoDiff /\ ~ENABLED MainPatchSet)
               /\ error = "none" /\ calls = <<>> /\ posts = <<>>

\* C9: a run for a "closed" event that is over without any call.
C9_Witness ==
    /\ pc = "done"
    /\ action = "closed"
    /\ fetches = 0 /\ calls = <<>> /\ posts = <<>>

\* C10: at most one POST is made; when it is made the loop of analyze_code
\* is over, every reviewable file has had its completion call, the run
\* makes no further step, and the POST carries every payload, in order,
\* each on the side "RIGHT"; a run that an exception of an earlier step
\* ended has made no POST.
C10_SinglePostAfterAnalysis ==
    /\ Len(posts) <= 1
    /\ posts # <<>>
            => /\ RunEnded
               /\ idx > Len(parsed_diff)
               /\ \A i \in Reviewable(parsed_diff) : Cardinality(CallsOf(i)) = 1
               /\ Len(posts[1]) = Len(comments)
               /\ \A c \in 1..Len(comments) :
                    posts[1][c] = [body |-> comments[c].body,
                                   path |-> comments[c].path,
                                   line |-> comments[c].line,
                                   side |-> "RIGHT"]
    /\ (pc = "error" /\ error # "create_review_comment") => posts = <<>>
    /\ (pc = "done" /\ comments # <<>>) => Len(posts) = 1

\* C10: a finished run whose one POST carries the payloads of two files.
C10_Witness ==
    /\ pc = "done"
    /\ Len(posts) = 1
    /\ Len(posts[1]) = 2
    /\ Len(calls) = 2

\* An item the spec calls valid: an object with a positive lineNumber and a
\* non-empty reviewComment.
ValidReview(it) ==
    it.obj /\ it.hasLine /\ it.line > 0 /\ it.hasComment /\ it.comment # ""

\* C3: the comment body built from a decoded reviews list holds one
\* paragraph per valid item of the list, in order, and none for an item
\* that lacks lineNumber or reviewComment, has a non-positive lineNumber or
\* an empty comment.
C3_OnlyValidItemsRendered ==
    pc = "combined"
    => LET valid == SelectSeq(ai_reviews.items, ValidReview)
       IN  /\ Len(comment_body) = Len(valid)
           /\ \A i \in 1..Len(valid) :
                comment_body[i] = [label |-> ToString(valid[i].line),
                                   text |-> valid[i].comment]

\* C4: a model output inside a code fence, bare or tagged json, is parsed
\* to the same review items as its payload without the fence.
C4_FenceStripped ==
    (pc # "get_ai_response" /\ response.kind = "text")
    => ai_reviews.items = get_ai_response([response EXCEPT !.fence = "none"]).items

\* The sections of a diff text that are files with added lines, not removed.
Retained(dt) ==
    {i \in 1..Len(dt) :
        ~dt[i].malformed /\ ~dt[i].removed /\ AddedLineNumbers(dt[i]) # {}}

\* C7: for a diff text all of whose sections are well formed, parse_diff
\* returns one record per section that is not a removed file and has an
\* added line, and none for another section; every record's changes are
\* not empty and hold one entry per added line of its section, with that
\* line's target line number.
C7_OneRecordPerFileWithAddedLines ==
    (pc = "parsed" /\ \A i \in 1..Len(diff_text) : ~diff_text[i].malformed)
    => /\ Len(parsed_files) = Cardinality(Retained(diff_text))
       /\ \A i \in Retained(diff_text) :
            \E r \in 1..Len(parsed_files) :
                /\ parsed_files[r].path = diff_text[i].path
                /\ {parsed_files[r].changes[k].line :
                        k \in 1..Len(parsed_files[r].changes)}
                     = AddedLineNumbers(diff_text[i])
                /\ Len(parsed_files[r].changes)
                     = Cardinality(AddedLineNumbers(diff_text[i]))
       /\ \A r \in 1..Len(parsed_files) : parsed_files[r].changes # <<>>

\* C8: for a diff text with a malformed section, parse_diff still returns
\* the record of every other section that is a file with added lines, not
\* removed, whether it comes before or after the malformed one.
C8_MalformedSectionIsolated ==
    (pc = "parsed" /\ \E i \in 1..Len(diff_text) : diff_text[i].malformed)
    => \A i \in Retained(diff_text) :
            \E r \in 1..Len(parsed_files) :
                /\ parsed_files[r].path = diff_text[i].path
                /\ Len(parsed_files[r].changes)
                     = Cardinality(AddedLineNumbers(diff_text[i]))

====
